---- MODULE Spec2Model ----
(***************************************************************************)
(* Form-submission service: the demo server (in-memory array) and the      *)
(* MongoDB server (mongoose model UserData).  Both share the validation    *)
(* chain validateInput and the three JSON routes                           *)
(*   POST /api/submit, GET /api/submissions, GET /api/health.              *)
(*                                                                         *)
(* A text value is a sequence of one-character strings, so that Len, trim, *)
(* the regular expression of the name rule and lower-casing are computed   *)
(* character by character.                                                 *)
(***************************************************************************)
EXTENDS Integers, Sequences, FiniteSets, TLC

(***************************************************************************)
(* Bounds of the model.                                                    *)
(***************************************************************************)
\* records the store may hold in Spec
MaxRecords == 2
\* the wall clock runs over 0..MaxClock (milliseconds)
MaxClock == 1
\* POST requests awaiting userData.save() at one time (MongoDB server)
MaxInflight == 2
\* SpecLimit lets the store grow to ListLimit + LimitExtra records
LimitExtra == 1

(***************************************************************************)
(* Program constants.                                                      *)
(***************************************************************************)
NameMin == 2
NameMax == 100
EmailMax == 255
MsgMin == 10
MsgMax == 1000
ListLimit == 50

(***************************************************************************)
(* Text.                                                                   *)
(***************************************************************************)
Upper == {"A", "L"}
Lower == {"a", "l", "x"}
Digits == {"1"}
\* the characters JavaScript's \s and String.prototype.trim treat as blank
WhiteSpace == {" ", "\t", "\n"}

\* the elements of f, a function on 1..n, as a tuple
AsSeq(f) == SubSeq(f, 1, Len(f))

Rep(c, n) == AsSeq([i \in 1..n |-> c])

Min(a, b) == IF a <= b THEN a ELSE b

SetMin(S) == CHOOSE m \in S : \A k \in S : m <= k
SetMax(S) == CHOOSE m \in S : \A k \in S : k <= m

\* validator.js trim / String.prototype.trim: drop leading and trailing blanks
Trim(s) ==
    LET solid == {i \in 1..Len(s) : s[i] \notin WhiteSpace}
    IN  IF solid = {} THEN <<>> ELSE SubSeq(s, SetMin(solid), SetMax(solid))

\* String.prototype.toLowerCase
ToLowerChar(c) == IF c = "A" THEN "a" ELSE IF c = "L" THEN "l" ELSE c
ToLower(s) == AsSeq([i \in 1..Len(s) |-> ToLowerChar(s[i])])

\* validator.js isEmpty with the default options (blanks are not ignored)
IsEmpty(s) == Len(s) = 0

\* validator.js isLength({min, max})
IsLength(s, min, max) == Len(s) >= min /\ Len(s) <= max

\* /^[a-zA-Z\s]+$/
MatchesLettersAndSpaces(s) ==
    /\ Len(s) >= 1
    /\ \A i \in 1..Len(s) : s[i] \in Upper \cup Lower \cup WhiteSpace

(***************************************************************************)
(* validator.js isEmail with the default options: at most 254 characters,  *)
(* the part after the last "@" a fully qualified domain name, the part     *)
(* before it dot-separated atoms of at most 64 characters in all.          *)
(***************************************************************************)
AtomChars == Upper \cup Lower \cup Digits
LabelChars == Upper \cup Lower \cup Digits \cup {"-"}

\* the dot-separated pieces of s are all non-empty and drawn from chars
DotAtoms(s, chars) ==
    /\ Len(s) >= 1
    /\ s[1] # "." /\ s[Len(s)] # "."
    /\ \A i \in 1..Len(s) : s[i] \in chars \cup {"."}
    /\ \A i \in 1..(Len(s) - 1) : ~(s[i] = "." /\ s[i + 1] = ".")

IsFQDN(d) ==
    LET dots == {i \in 1..Len(d) : d[i] = "."}
    IN  /\ DotAtoms(d, LabelChars)
        /\ dots # {}
        /\ LET tld == SubSeq(d, SetMax(dots) + 1, Len(d))
           IN  /\ Len(tld) >= 2
               /\ \A i \in 1..Len(tld) : tld[i] \in Upper \cup Lower
        /\ \A i \in 1..Len(d) :
              (i = 1 \/ d[i - 1] = ".") => d[i] # "-"
        /\ \A i \in 1..Len(d) :
              (i = Len(d) \/ d[i + 1] = ".") => d[i] # "-"

IsEmail(s) ==
    LET ats == {i \in 1..Len(s) : s[i] = "@"}
    IN  /\ Len(s) <= 254
        /\ ats # {}
        /\ LET user == SubSeq(s, 1, SetMax(ats) - 1)
               domain == SubSeq(s, SetMax(ats) + 1, Len(s))
           IN  /\ Len(user) <= 64
               /\ IsFQDN(domain)
               /\ DotAtoms(user, AtomChars)

\* validator.js normalizeEmail with the default options, for an address
\* of no special-cased provider: the whole address is lower-cased
NormalizeEmail(s) == ToLower(s)

(***************************************************************************)
(* validateInput: the express-validator chains.  Every validator of a      *)
(* chain runs on the field's current value and adds its own error; a       *)
(* sanitizer replaces the value for what follows it in the chain and in    *)
(* req.body.  An error names its field (param / path) and carries the      *)
(* message of withMessage.                                                 *)
(***************************************************************************)
Err(field, msg) == [field |-> field, msg |-> msg]

NameErrors(name) ==
    (IF IsEmpty(name) THEN <<Err("name", "Name is required")>> ELSE <<>>)
    \o (IF ~IsLength(name, NameMin, NameMax)
        THEN <<Err("name", "Name must be between 2 and 100 characters")>>
        ELSE <<>>)
    \o (IF ~MatchesLettersAndSpaces(name)
        THEN <<Err("name", "Name can only contain letters and spaces")>>
        ELSE <<>>)

EmailErrors(email) ==
    (IF ~IsEmail(email)
     THEN <<Err("email", "Please enter a valid email address")>> ELSE <<>>)
    \o (IF ~IsLength(NormalizeEmail(email), 0, EmailMax)
        THEN <<Err("email", "Email must be less than 255 characters")>>
        ELSE <<>>)

MessageErrors(message) ==
    (IF IsEmpty(message) THEN <<Err("message", "Message is required")>> ELSE <<>>)
    \o (IF ~IsLength(message, MsgMin, MsgMax)
        THEN <<Err("message", "Message must be between 10 and 1000 characters")>>
        ELSE <<>>)

\* validationResult(req).array()
validationResult(body) ==
    NameErrors(body.name) \o EmailErrors(body.email) \o MessageErrors(body.message)

\* req.body once the chains have run: normalizeEmail() and the trailing trim()
SanitizedBody(body) ==
    [name |-> body.name,
     email |-> NormalizeEmail(body.email),
     message |-> Trim(body.message)]

\* errors.isEmpty()
isEmpty(errors) == Len(errors) = 0

\* req.ip || req.connection.remoteAddress || 'unknown' ("" stands for a
\* missing address)
IpAddressOf(req) ==
    IF req.ip # "" THEN req.ip
    ELSE IF req.remoteAddress # "" THEN req.remoteAddress
    ELSE "unknown"

(***************************************************************************)
(* The requests the model sends.                                           *)
(***************************************************************************)
nEmpty == <<>>
nOne == <<"A">>
nPadOne == <<" ", "A">>
nBlank == <<" ", " ">>
nTwo == <<"A", "l">>
nDigit == <<"A", "1">>
nMax == Rep("a", NameMax)
nOver == Rep("a", NameMax + 1)
nPadMax == <<" ">> \o Rep("a", NameMax)

eEmpty == <<>>
eNoAt == <<"a", "l">>
eGood == <<"A", "l", "@", "a", "x", ".", "a", "l">>
ePadGood == <<" ">> \o eGood
eOver == Rep("a", EmailMax) \o <<"@", "a", "x", ".", "a", "l">>

mEmpty == <<>>
mShort == <<"a", "l", "l", "a", "x">>
mPadShort == <<" ", " ">> \o mShort \o <<" ", " ", " ">>
mBlank == Rep(" ", MsgMin)
mGood == <<"a", "l", "l", " ", "a", "l", "l", " ", "a", "l", "l">>
mOver == Rep("x", MsgMax + 1)

Names == {nEmpty, nOne, nPadOne, nBlank, nTwo, nDigit, nMax, nOver, nPadMax}
Emails == {eEmpty, eNoAt, eGood, ePadGood, eOver}
Messages == {mEmpty, mShort, mPadShort, mBlank, mGood, mOver}

Req(name, email, message, ip, remote) ==
    [body |-> [name |-> name, email |-> email, message |-> message],
     ip |-> ip, remoteAddress |-> remote]

BaseReq == Req(nTwo, eGood, mGood, "10.0.0.1", "10.0.0.1")

BadReq == Req(nOne, eNoAt, mShort, "10.0.0.1", "10.0.0.1")

\* the requests of Spec: one accepted, one rejected
CoreRequests == {BaseReq, BadReq}

\* one field varied at a time around BaseReq, and a few requests with
\* several fields wrong at once
Requests ==
    {Req(n, eGood, mGood, "10.0.0.1", "10.0.0.1") : n \in Names}
    \cup {Req(nTwo, e, mGood, "10.0.0.1", "10.0.0.1") : e \in Emails}
    \cup {Req(nTwo, eGood, m, "10.0.0.1", "10.0.0.1") : m \in Messages}
    \cup {Req(nTwo, eGood, mGood, "", r) : r \in {"", "10.0.0.2"}}
    \cup {Req(nEmpty, eEmpty, mEmpty, "10.0.0.1", "10.0.0.1"),
          Req(nPadOne, eGood, mPadShort, "", ""),
          Req(nPadOne, eGood, mPadShort, "10.0.0.1", "10.0.0.1"),
          Req(nDigit, eGood, mPadShort, "10.0.0.1", "10.0.0.1")}
    \cup CoreRequests

\* what the middleware validateInput leaves for the handler of a request:
\* the validation errors and the sanitized req.body
\* (f @@ <<>> is f, tabulated)
validateInput == [req \in Requests |->
    [errors |-> validationResult(req.body), body |-> SanitizedBody(req.body)]] @@ <<>>

(***************************************************************************)
(* State.                                                                  *)
(***************************************************************************)
VARIABLES
    mode,               \* "demo": the in-memory server, "mongo": the MongoDB server
    submissions,        \* demo: let submissions = []
    submissionCounter,  \* demo: let submissionCounter = 1
    collection,         \* mongo: the documents of UserData, in insertion order
    oidCounter,         \* mongo: the driver's ObjectId counter
    pending,            \* mongo: POST handlers suspended at await userData.save()
    readyState,         \* mongo: mongoose.connection.readyState
    running,            \* the process has not exited
    tieOrder,           \* mongo: how the server orders documents equal on the sort key
    now,                \* the wall clock (new Date(), Date.now)
    last,               \* the response sent by the latest step, NoResponse if none
    acked,              \* history: the ids answered 201, in the order answered
    failed,             \* history: the _ids of the documents whose save() rejected
    lastList            \* history: the data of the latest 200 listing since the last
                        \* write, and how many such listings there were (at most 2)

vars == <<mode, submissions, submissionCounter, collection, oidCounter, pending,
          readyState, running, tieOrder, now, last, acked, failed, lastList>>

NoResponse == [op |-> "none", status |-> 0]
NoList == [valid |-> FALSE, data |-> <<>>, reads |-> 0]

\* lastList once a listing has answered 200 with data
Listed(data) == [valid |-> TRUE, data |-> data, reads |-> Min(lastList.reads + 1, 2)]

\* the records of whichever store the running server uses
Store == IF mode = "demo" THEN submissions ELSE collection

(***************************************************************************)
(* Listing helpers.                                                        *)
(***************************************************************************)
\* Take gone wrong: the bound is taken inclusively, as an index
TakeOneMore(s, n) == SubSeq(s, 1, Min(n + 1, Len(s)))

\* .slice(0, n) / .limit(n)
Take(s, n) == SubSeq(s, 1, Min(n, Len(s)))

Reverse(s) == AsSeq([i \in 1..Len(s) |-> s[Len(s) + 1 - i]])

\* the records of s whose createdAt is k, in their order in s
WithCreatedAt(s, k) ==
    LET Test(r) == r.createdAt = k IN SelectSeq(s, Test)

RECURSIVE SortDescOver(_, _, _)
SortDescOver(s, keys, tie) ==
    IF keys = {} THEN <<>>
    ELSE LET k == SetMax(keys)
             group == WithCreatedAt(s, k)
         IN  (IF tie = "stable" THEN group ELSE Reverse(group))
             \o SortDescOver(s, keys \ {k}, tie)

\* s ordered by createdAt descending.  Records equal on createdAt keep
\* their order in s when tie = "stable" (Array.prototype.sort is stable)
\* and come in the opposite order when tie = "reverse".
SortByCreatedAtDesc(s, tie) ==
    SortDescOver(s, {s[i].createdAt : i \in 1..Len(s)}, tie)

\* DemoView gone wrong: the record is passed on whole
DemoViewWhole(r) == r

\* demo: the object literal of the map callback (no ipAddress)
DemoView(r) ==
    [_id |-> r._id, name |-> r.name, email |-> r.email,
     message |-> r.message, createdAt |-> r.createdAt]

\* demo: submissions.map(...).sort(...).slice(0, 50)
recentSubmissions(subs) ==
    Take(SortByCreatedAtDesc(AsSeq([i \in 1..Len(subs) |-> DemoView(subs[i])]), "stable"),
         ListLimit)

\* demo: `demo-${submissionCounter++}`
DemoId(counter) == <<"demo", counter>>

\* PostIncrement gone wrong: the counter is read and never advanced
PostIncrementStuck(counter) == counter

\* demo: submissionCounter after submissionCounter++
PostIncrement(counter) == counter + 1

\* demo: the object literal userData
DemoRecord(counter, body, ipAddress, createdAt) ==
    [_id |-> DemoId(counter), name |-> body.name, email |-> body.email,
     message |-> body.message, ipAddress |-> ipAddress, createdAt |-> createdAt]

Response400(req, errors) ==
    [op |-> "submit", status |-> 400, success |-> FALSE,
     message |-> "Validation failed", errors |-> errors, req |-> req]

Response201(req, id) ==
    [op |-> "submit", status |-> 201, success |-> TRUE,
     message |-> "Data saved successfully", id |-> id, req |-> req]

Response500(req) ==
    [op |-> "submit", status |-> 500, success |-> FALSE,
     message |-> "Internal server error. Please try again later.", req |-> req]

ListResponse(data) ==
    [op |-> "list", status |-> 200, success |-> TRUE, data |-> data]

ListFailure ==
    [op |-> "list", status |-> 500, success |-> FALSE,
     message |-> "Error fetching submissions"]

(***************************************************************************)
(* The demo server.  Its handlers contain no await: each runs to its       *)
(* response in one step of the event loop.                                 *)
(***************************************************************************)
mongoVars == <<collection, oidCounter, pending, readyState, tieOrder, failed>>

\* SubmitDemo gone wrong: the id is drawn from the counter before the
\* validation errors are looked at
SubmitDemoCountsFirst(req, cap) ==
    /\ mode = "demo" /\ running
    /\ submissionCounter <= cap
    /\ submissionCounter' = submissionCounter + 1
    /\ LET errors == validateInput[req].errors
           body == validateInput[req].body
           userData == DemoRecord(submissionCounter, body, IpAddressOf(req), now)
       IN  IF ~isEmpty(errors)
           THEN /\ last' = Response400(req, errors)
                /\ UNCHANGED <<submissions, acked, lastList>>
           ELSE /\ Len(submissions) < cap
                /\ submissions' = Append(submissions, userData)
                /\ last' = Response201(req, userData._id)
                /\ acked' = Append(acked, userData._id)
                /\ lastList' = NoList
    /\ UNCHANGED <<mode, running, now>>
    /\ UNCHANGED mongoVars

\* app.post('/api/submit') ; cap bounds the size of the store
SubmitDemo(req, cap) ==
    /\ mode = "demo" /\ running
    /\ LET errors == validateInput[req].errors
           body == validateInput[req].body
           userData == DemoRecord(submissionCounter, body, IpAddressOf(req), now)
       IN  IF ~isEmpty(errors)
           THEN /\ last' = Response400(req, errors)
                /\ UNCHANGED <<submissions, submissionCounter, acked, lastList>>
           ELSE /\ Len(submissions) < cap
                /\ submissionCounter' = PostIncrement(submissionCounter)
                /\ submissions' = Append(submissions, userData)
                /\ last' = Response201(req, userData._id)
                /\ acked' = Append(acked, userData._id)
                /\ lastList' = NoList
    /\ UNCHANGED <<mode, running, now>>
    /\ UNCHANGED mongoVars

\* GetSubmissionsDemo gone wrong: submissions itself is sorted, in place
GetSubmissionsDemoSortsInPlace ==
    /\ mode = "demo" /\ running
    /\ submissions' = SortByCreatedAtDesc(submissions, "stable")
    /\ last' = ListResponse(
           Take(AsSeq([i \in 1..Len(submissions) |-> DemoView(submissions'[i])]),
                ListLimit))
    /\ lastList' = Listed(last'.data)
    /\ UNCHANGED <<mode, submissionCounter, running, now, acked>>
    /\ UNCHANGED mongoVars

\* app.get('/api/submissions')
GetSubmissionsDemo ==
    /\ mode = "demo" /\ running
    /\ last' = ListResponse(recentSubmissions(submissions))
    /\ lastList' = Listed(last'.data)
    /\ UNCHANGED <<mode, submissions, submissionCounter, running, now, acked>>
    /\ UNCHANGED mongoVars

\* HealthDemo gone wrong: the id counter is reported as the record count
HealthDemoCountsCounter ==
    /\ mode = "demo" /\ running
    /\ last' = [op |-> "health", status |-> 200, health |-> "healthy",
                database |-> "demo-mode (in-memory)",
                submissions_count |-> submissionCounter]
    /\ UNCHANGED <<mode, submissions, submissionCounter, running, now, acked, lastList>>
    /\ UNCHANGED mongoVars

\* app.get('/api/health')
HealthDemo ==
    /\ mode = "demo" /\ running
    /\ last' = [op |-> "health", status |-> 200, health |-> "healthy",
                database |-> "demo-mode (in-memory)",
                submissions_count |-> Len(submissions)]
    /\ UNCHANGED <<mode, submissions, submissionCounter, running, now, acked, lastList>>
    /\ UNCHANGED mongoVars

\* the wall clock advances
Tick ==
    /\ now < MaxClock
    /\ now' = now + 1
    /\ last' = NoResponse
    /\ UNCHANGED <<mode, submissions, submissionCounter, running, acked, lastList>>
    /\ UNCHANGED mongoVars

(***************************************************************************)
(* The MongoDB server.  new UserData({...}) builds the document at once:   *)
(* the schema's setters (trim, lowercase) run, createdAt takes its default *)
(* Date.now and _id a fresh ObjectId.  userData.save() is awaited: the     *)
(* handler is suspended, the schema's validators run, the document is      *)
(* inserted (or the save fails), and the handler resumes later to answer.  *)
(***************************************************************************)
demoVars == <<submissions, submissionCounter>>

\* new ObjectId(): the creation time and the driver's 3-byte counter
ObjectId(time, counter) == <<"oid", time, counter % 16777216>>

\* new UserData({name, email, message, ipAddress})
UserData(id, body, ipAddress, createdAt) ==
    [_id |-> id,
     name |-> Trim(body.name),
     email |-> ToLower(Trim(body.email)),
     message |-> Trim(body.message),
     ipAddress |-> ipAddress,
     createdAt |-> createdAt,
     __v |-> 0]

\* userDataSchema's validators, run by save(): required, maxlength
SchemaValid(doc) ==
    /\ Len(doc.name) >= 1 /\ Len(doc.name) <= NameMax
    /\ Len(doc.email) >= 1 /\ Len(doc.email) <= EmailMax
    /\ Len(doc.message) >= 1 /\ Len(doc.message) <= MsgMax
    /\ doc.ipAddress # ""

\* .select('-ipAddress')
SelectWithoutIp(d) ==
    [_id |-> d._id, name |-> d.name, email |-> d.email, message |-> d.message,
     createdAt |-> d.createdAt, __v |-> d.__v]

\* UserData.find().select('-ipAddress').sort({createdAt: -1}).limit(50)
FindRecent(docs, tie) ==
    Take(SortByCreatedAtDesc(AsSeq([i \in 1..Len(docs) |-> SelectWithoutIp(docs[i])]), tie),
         ListLimit)

\* the unique index on _id
DuplicateKey(doc) == \E i \in 1..Len(collection) : collection[i]._id = doc._id

\* app.post('/api/submit') up to await userData.save()
SubmitMongo(req, cap) ==
    /\ mode = "mongo" /\ running
    /\ LET errors == validateInput[req].errors
           body == validateInput[req].body
           userData == UserData(ObjectId(now, oidCounter), body, IpAddressOf(req), now)
       IN  IF ~isEmpty(errors)
           THEN /\ last' = Response400(req, errors)
                /\ UNCHANGED <<oidCounter, pending>>
           ELSE /\ Cardinality(pending) < MaxInflight
                /\ oidCounter < cap
                /\ oidCounter' = oidCounter + 1
                /\ pending' = pending \cup
                       {[doc |-> userData, req |-> req, stage |-> "saving"]}
                /\ last' = NoResponse
    /\ UNCHANGED <<mode, collection, readyState, running, tieOrder, now, acked, lastList>>
    /\ UNCHANGED demoVars
    /\ UNCHANGED failed

\* userData.save() inserts the document
SaveInsert(p) ==
    /\ mode = "mongo" /\ running
    /\ p \in pending /\ p.stage = "saving"
    /\ SchemaValid(p.doc) /\ readyState = 1 /\ ~DuplicateKey(p.doc)
    /\ collection' = Append(collection, p.doc)
    /\ pending' = (pending \ {p}) \cup {[p EXCEPT !.stage = "saved"]}
    /\ last' = NoResponse
    /\ lastList' = NoList
    /\ UNCHANGED <<mode, oidCounter, readyState, running, tieOrder, now, acked>>
    /\ UNCHANGED demoVars
    /\ UNCHANGED failed

\* SaveFail gone wrong: save() is not awaited, its rejection goes unnoticed
\* and the handler carries on to res.status(201)
SaveFailUnawaited(p) ==
    /\ mode = "mongo" /\ running
    /\ p \in pending /\ p.stage = "saving"
    /\ ~SchemaValid(p.doc) \/ readyState # 1 \/ DuplicateKey(p.doc)
    /\ pending' = (pending \ {p}) \cup {[p EXCEPT !.stage = "saved"]}
    /\ failed' = failed \cup {p.doc._id}
    /\ last' = NoResponse
    /\ UNCHANGED <<mode, collection, oidCounter, readyState, running, tieOrder, now,
                   acked, lastList>>
    /\ UNCHANGED demoVars

\* userData.save() rejects: a schema validator fails, there is no
\* connection and the buffered insert times out, or _id is taken
SaveFail(p) ==
    /\ mode = "mongo" /\ running
    /\ p \in pending /\ p.stage = "saving"
    /\ ~SchemaValid(p.doc) \/ readyState # 1 \/ DuplicateKey(p.doc)
    /\ pending' = (pending \ {p}) \cup {[p EXCEPT !.stage = "failed"]}
    /\ failed' = failed \cup {p.doc._id}
    /\ last' = NoResponse
    /\ UNCHANGED <<mode, collection, oidCounter, readyState, running, tieOrder, now,
                   acked, lastList>>
    /\ UNCHANGED demoVars

\* the handler resumes after the await: res.status(201)
Respond201(p) ==
    /\ mode = "mongo" /\ running
    /\ p \in pending /\ p.stage = "saved"
    /\ pending' = pending \ {p}
    /\ last' = Response201(p.req, p.doc._id)
    /\ acked' = Append(acked, p.doc._id)
    /\ UNCHANGED <<mode, collection, oidCounter, readyState, running, tieOrder, now,
                   lastList>>
    /\ UNCHANGED demoVars
    /\ UNCHANGED failed

\* the handler resumes in its catch block: res.status(500)
Respond500(p) ==
    /\ mode = "mongo" /\ running
    /\ p \in pending /\ p.stage = "failed"
    /\ pending' = pending \ {p}
    /\ last' = Response500(p.req)
    /\ UNCHANGED <<mode, collection, oidCounter, readyState, running, tieOrder, now,
                   acked, lastList>>
    /\ UNCHANGED demoVars
    /\ UNCHANGED failed

\* app.get('/api/submissions'): the query reads the collection in one
\* step; the response carries what the query read
GetSubmissionsMongo ==
    /\ mode = "mongo" /\ running
    /\ IF readyState = 1
       THEN /\ last' = ListResponse(FindRecent(collection, tieOrder))
            /\ lastList' = Listed(last'.data)
       ELSE /\ last' = ListFailure
            /\ UNCHANGED lastList
    /\ UNCHANGED <<mode, collection, oidCounter, pending, readyState, running,
                   tieOrder, now, acked>>
    /\ UNCHANGED demoVars
    /\ UNCHANGED failed

\* HealthMongo gone wrong: readyState is tested for truth, so connecting (2)
\* is reported as connected
HealthMongoTruthy ==
    /\ mode = "mongo" /\ running
    /\ last' = [op |-> "health", status |-> 200, health |-> "healthy",
                database |-> IF readyState # 0 THEN "connected" ELSE "disconnected"]
    /\ UNCHANGED <<mode, collection, oidCounter, pending, readyState, running,
                   tieOrder, now, acked, lastList>>
    /\ UNCHANGED demoVars
    /\ UNCHANGED failed

\* app.get('/api/health')
HealthMongo ==
    /\ mode = "mongo" /\ running
    /\ last' = [op |-> "health", status |-> 200, health |-> "healthy",
                database |-> IF readyState = 1 THEN "connected" ELSE "disconnected"]
    /\ UNCHANGED <<mode, collection, oidCounter, pending, readyState, running,
                   tieOrder, now, acked, lastList>>
    /\ UNCHANGED demoVars
    /\ UNCHANGED failed

\* mongoose.connect(...).then(...): connecting -> connected
ConnectOk ==
    /\ mode = "mongo" /\ running /\ readyState = 2
    /\ readyState' = 1
    /\ last' = NoResponse
    /\ UNCHANGED <<mode, collection, oidCounter, pending, running, tieOrder, now,
                   acked, lastList>>
    /\ UNCHANGED demoVars
    /\ UNCHANGED failed

\* mongoose.connect(...).catch(...): process.exit(1)
ConnectFail ==
    /\ mode = "mongo" /\ running /\ readyState = 2
    /\ readyState' = 0
    /\ running' = FALSE
    /\ pending' = {}
    /\ last' = NoResponse
    /\ UNCHANGED <<mode, collection, oidCounter, tieOrder, now, acked, lastList>>
    /\ UNCHANGED demoVars
    /\ UNCHANGED failed

\* the connection drops
Disconnect ==
    /\ mode = "mongo" /\ running /\ readyState = 1
    /\ readyState' = 0
    /\ last' = NoResponse
    /\ UNCHANGED <<mode, collection, oidCounter, pending, running, tieOrder, now,
                   acked, lastList>>
    /\ UNCHANGED demoVars
    /\ UNCHANGED failed

\* the driver reconnects
Reconnect ==
    /\ mode = "mongo" /\ running /\ readyState = 0
    /\ readyState' = 1
    /\ last' = NoResponse
    /\ UNCHANGED <<mode, collection, oidCounter, pending, running, tieOrder, now,
                   acked, lastList>>
    /\ UNCHANGED demoVars
    /\ UNCHANGED failed

(***************************************************************************)
(* Specifications.                                                         *)
(***************************************************************************)
\* k records of BaseReq already stored by the running server, all answered 201
PrefillDemo(k) ==
    AsSeq([i \in 1..k |->
        DemoRecord(i, SanitizedBody(BaseReq.body), IpAddressOf(BaseReq), 0)])

PrefillMongo(k) ==
    AsSeq([i \in 1..k |-> UserData(ObjectId(0, i - 1), SanitizedBody(BaseReq.body),
                                   IpAddressOf(BaseReq), 0)])

InitWith(k) ==
    /\ mode \in {"demo", "mongo"}
    /\ submissions = IF mode = "demo" THEN PrefillDemo(k) ELSE <<>>
    /\ submissionCounter = IF mode = "demo" THEN k + 1 ELSE 1
    /\ collection = IF mode = "mongo" THEN PrefillMongo(k) ELSE <<>>
    /\ oidCounter = IF mode = "mongo" THEN k ELSE 0
    /\ pending = {}
    /\ readyState = IF mode = "mongo" THEN (IF k = 0 THEN 2 ELSE 1) ELSE 0
    /\ running = TRUE
    /\ tieOrder \in IF mode = "mongo" THEN {"stable", "reverse"} ELSE {"stable"}
    /\ now = 0
    /\ last = NoResponse
    /\ acked = AsSeq([i \in 1..k |-> Store[i]._id])
    /\ failed = {}
    /\ lastList = NoList

\* the state after the server has started
Init == InitWith(0)

NextWith(reqs, cap) ==
    \/ \E req \in reqs : SubmitDemo(req, cap)
    \/ GetSubmissionsDemo
    \/ HealthDemo
    \/ Tick
    \/ \E req \in reqs : SubmitMongo(req, cap)
    \/ \E p \in pending : SaveInsert(p)
    \/ \E p \in pending : SaveFail(p)
    \/ \E p \in pending : Respond201(p)
    \/ \E p \in pending : Respond500(p)
    \/ GetSubmissionsMongo
    \/ HealthMongo
    \/ ConnectOk
    \/ ConnectFail
    \/ Disconnect
    \/ Reconnect

Next == NextWith(CoreRequests, MaxRecords)

Spec == Init /\ [][Next]_vars

\* the server with ListLimit - 1 records stored, fed one valid request
InitLimit == InitWith(ListLimit - 1)

\* the connection stays up: no save fails
NextLimit ==
    \/ SubmitDemo(BaseReq, ListLimit + LimitExtra)
    \/ GetSubmissionsDemo
    \/ Tick
    \/ SubmitMongo(BaseReq, ListLimit + LimitExtra)
    \/ \E p \in pending : SaveInsert(p)
    \/ \E p \in pending : Respond201(p)
    \/ GetSubmissionsMongo

SpecLimit == InitLimit /\ [][NextLimit]_vars

\* the server fed every request of Requests, the store holding one record
NextValidate == NextWith(Requests, 1)

SpecValidate == Init /\ [][NextValidate]_vars

(***************************************************************************)
(* The validation rules as the specification states them, for the claims   *)
(* that speak of valid and invalid input.                                  *)
(***************************************************************************)
\* name: required; length in [2,100] after trimming; letters and whitespace only
StatedNameRule(name) ==
    /\ Len(Trim(name)) >= NameMin /\ Len(Trim(name)) <= NameMax
    /\ \A i \in 1..Len(name) : name[i] \in Upper \cup Lower \cup WhiteSpace

\* email: required; standard email syntax; at most 255 characters
StatedEmailRule(email) == IsEmail(email) /\ Len(email) <= EmailMax

\* message: required; length in [10,1000] after trimming
StatedMessageRule(message) ==
    Len(Trim(message)) >= MsgMin /\ Len(Trim(message)) <= MsgMax

StatedRule(field, body) ==
    IF field = "name" THEN StatedNameRule(body.name)
    ELSE IF field = "email" THEN StatedEmailRule(body.email)
    ELSE StatedMessageRule(body.message)

Fields == {"name", "email", "message"}

StatedValid(body) == \A f \in Fields : StatedRule(f, body)

\* how many records of s carry the id
CountId(s, id) == Cardinality({i \in 1..Len(s) : s[i]._id = id})

\* how many entries of the sequence of ids are id
CountAcked(id) == Cardinality({k \in 1..Len(acked) : acked[k] = id})

\* where the record with the id stands in data (0 if it is not there)
PosIn(data, id) ==
    IF \E k \in 1..Len(data) : data[k]._id = id
    THEN CHOOSE k \in 1..Len(data) : data[k]._id = id
    ELSE 0

SubmitAnswered == last.op = "submit"
Listed200 == last.op = "list" /\ last.status = 200

(***************************************************************************)
(* C1: every POST /api/submit whose name, email and message satisfy the    *)
(* stated validation rules is answered 201, with an id that no earlier     *)
(* 201 carried and that exactly one stored record (its own) carries.       *)
(* Stated as the claim states it; the servers violate it.                  *)
(***************************************************************************)
C1_ValidSubmitAnswered201Fresh ==
    (SubmitAnswered /\ StatedValid(last.req.body)) =>
        /\ last.status = 201
        /\ CountAcked(last.id) = 1
        /\ CountId(Store, last.id) = 1

(***************************************************************************)
(* C2: in every listing, of two stored records that both appear the one    *)
(* appended later comes first, also when their createdAt are equal.        *)
(* Stated as the claim states it; the servers violate it.                  *)
(***************************************************************************)
C2_LaterAppendedListedFirst ==
    Listed200 =>
        \A i, j \in 1..Len(Store) :
            (/\ i < j
             /\ PosIn(last.data, Store[i]._id) # 0
             /\ PosIn(last.data, Store[j]._id) # 0)
            => PosIn(last.data, Store[j]._id) < PosIn(last.data, Store[i]._id)

(***************************************************************************)
(* C3: a listing of a store of n records returns exactly min(n, 50)        *)
(* records, each a different stored record, and no record left out has a   *)
(* createdAt greater than that of a record returned.                       *)
(***************************************************************************)
C3_ListReturnsMinOfCountAndLimit ==
    Listed200 =>
        /\ Len(last.data) = Min(Len(Store), ListLimit)
        /\ \A k \in 1..Len(last.data) : CountId(Store, last.data[k]._id) = 1
        /\ \A k, l \in 1..Len(last.data) :
              k # l => last.data[k]._id # last.data[l]._id
        /\ \A i \in 1..Len(Store) :
              PosIn(last.data, Store[i]._id) = 0 =>
                  \A k \in 1..Len(last.data) :
                      last.data[k].createdAt >= Store[i].createdAt

\* a listing of more than 50 records that leaves out an older one
C3_Witness ==
    /\ Listed200
    /\ Len(Store) > ListLimit
    /\ \E i \in 1..Len(Store) :
          /\ PosIn(last.data, Store[i]._id) = 0
          /\ \E k \in 1..Len(last.data) :
                last.data[k].createdAt > Store[i].createdAt

(***************************************************************************)
(* C4: no record of a listing has an ipAddress field, and every stored     *)
(* record has one, which is not empty.                                     *)
(***************************************************************************)
C4_ListingsCarryNoIpAddress ==
    /\ Listed200 =>
          \A k \in 1..Len(last.data) : "ipAddress" \notin DOMAIN last.data[k]
    /\ \A i \in 1..Len(Store) :
          /\ "ipAddress" \in DOMAIN Store[i]
          /\ Store[i].ipAddress # ""

\* a listing that shows a stored record
C4_Witness ==
    /\ Listed200
    /\ Len(last.data) >= 1
    /\ \E i \in 1..Len(Store) : Store[i].ipAddress = "unknown"

(***************************************************************************)
(* C5: every POST /api/submit that breaks a stated rule of some field is   *)
(* answered 400 "Validation failed" with, for each field whose rule is     *)
(* broken, an error naming it.                                             *)
(* Stated as the claim states it; the servers violate it.                  *)
(***************************************************************************)
C5_InvalidSubmitAnswered400 ==
    (SubmitAnswered /\ ~StatedValid(last.req.body)) =>
        /\ last.status = 400
        /\ last.message = "Validation failed"
        /\ \A f \in Fields :
              ~StatedRule(f, last.req.body) =>
                  \E k \in 1..Len(last.errors) : last.errors[k].field = f

(***************************************************************************)
(* C6: the step that answers a POST /api/submit with 400 changes neither   *)
(* the stored records nor the id the next record will get.                 *)
(***************************************************************************)
C6_RejectedSubmitLeavesStore ==
    [][(last'.op = "submit" /\ last'.status = 400) =>
          /\ Store' = Store
          /\ submissionCounter' = submissionCounter
          /\ oidCounter' = oidCounter]_vars

\* a 400 answered by a server that holds a record
C6_Witness ==
    /\ SubmitAnswered /\ last.status = 400
    /\ Len(Store) >= 1

(***************************************************************************)
(* C7: the message of every stored record has between 10 and 1000          *)
(* characters once trimmed.                                                *)
(* Stated as the claim states it; the servers violate it.                  *)
(***************************************************************************)
C7_StoredMessageLength ==
    \A i \in 1..Len(Store) :
        /\ Len(Trim(Store[i].message)) >= MsgMin
        /\ Len(Trim(Store[i].message)) <= MsgMax

(***************************************************************************)
(* C8: the name of every stored record is made of letters and whitespace   *)
(* and has between 2 and 100 characters once trimmed.                      *)
(* Stated as the claim states it; the servers violate it.                  *)
(***************************************************************************)
C8_StoredNameLength ==
    \A i \in 1..Len(Store) :
        /\ \A k \in 1..Len(Store[i].name) :
              Store[i].name[k] \in Upper \cup Lower \cup WhiteSpace
        /\ Len(Trim(Store[i].name)) >= NameMin
        /\ Len(Trim(Store[i].name)) <= NameMax

C10_ConcurrentSubmitsKeepIdsUnique ==
    /\ \A k \in 1..Len(acked) :
          /\ CountId(Store, acked[k]) = 1
          /\ CountAcked(acked[k]) = 1
    /\ \A i, j \in 1..Len(Store) : i # j => Store[i]._id # Store[j]._id

\* two handlers were in flight together: one that began later has been
\* answered 201 while the one that began first is still suspended, saved
C10_Witness ==
    /\ mode = "mongo"
    /\ \E p \in pending :
          /\ p.stage = "saved"
          /\ \E k \in 1..Len(acked) : acked[k][3] > p.doc._id[3]

(***************************************************************************)
(* C11: when the append of a validated POST /api/submit fails, the handler *)
(* answers 500 with the generic message, the append is not tried again     *)
(* and the request is never answered 201; and a 201 is sent only once the  *)
(* append has completed: a record with the id it returns is in the store   *)
(* at the moment it is sent.                                               *)
(***************************************************************************)
\* the handler of p, suspended with a rejected save, answers in this step
AnswersFailed(p) == p \in pending /\ p.stage = "failed" /\ p \notin pending'

C11_FailedAppendAnswered500 ==
    [][
        /\ \A p \in pending :
             AnswersFailed(p) /\ running' =>
                 /\ last' = Response500(p.req)
                 /\ last'.message = "Internal server error. Please try again later."
        /\ \A id \in failed' :
             /\ CountAcked(id)' = 0
             /\ CountId(Store, id)' = 0
             /\ \A q \in pending' : q.doc._id = id => q.stage = "failed"
        /\ (last'.op = "submit" /\ last'.status = 201) =>
             /\ CountId(Store', last'.id) = 1
             /\ last'.id \notin failed'
    ]_vars

\* the MongoDB server has just answered 500 to a request whose save() rejected
C11_Witness ==
    /\ mode = "mongo"
    /\ last = Response500(BaseReq)
    /\ failed # {}
    /\ \A p \in pending : p.doc._id \notin failed

(***************************************************************************)
(* C12: in every connectivity state of the store (connecting, connected,   *)
(* disconnected, connection attempt failed) a GET /api/health is answered  *)
(* 200, and the database status it reports is the connectivity of the      *)
(* store at that moment.                                                   *)
(***************************************************************************)
\* a GET /api/health is answered 200 in this step
HealthAnswered200 == (HealthDemo \/ HealthMongo) /\ last'.status = 200

\* the last response is a health report that tells the store's connectivity
HealthReportIsActual ==
    (last.op = "health") =>
        /\ last.status = 200
        /\ IF mode = "mongo"
           THEN last.database = (IF readyState = 1 THEN "connected" ELSE "disconnected")
           ELSE last.database = "demo-mode (in-memory)"

\* Stated as the claim states it; after a failed connection attempt the
\* MongoDB server has exited and answers nothing.
C12_HealthAnswered200InEveryState ==
    /\ ENABLED HealthAnswered200
    /\ HealthReportIsActual

\* C12 as amended: while the process runs (the store connecting, connected
\* or disconnected) a GET /api/health is answered 200 and reports
\* "connected" exactly when the store is connected.
C12_HealthAnswered200WhileRunning ==
    /\ running => ENABLED HealthAnswered200
    /\ HealthReportIsActual

\* a health report of the MongoDB server while it is still connecting
C12_Witness ==
    /\ mode = "mongo" /\ running
    /\ readyState = 2
    /\ last.op = "health" /\ last.database = "disconnected"

(***************************************************************************)
(* C13: the store is append-only under every sequence of requests: a       *)
(* stored record keeps its id, name, email, message, createdAt and         *)
(* ipAddress and is never removed, so the record count the health          *)
(* endpoint reports never decreases and is the number of submits answered  *)
(* 201.  (Only the in-memory server's health endpoint reports a count.)    *)
(***************************************************************************)
\* s is an initial part of t
IsPrefix(s, t) == Len(s) <= Len(t) /\ \A i \in 1..Len(s) : t[i] = s[i]

C13_StoreIsAppendOnly ==
    [][
        /\ IsPrefix(Store, Store')
        /\ IsPrefix(acked, acked')
        /\ (last'.op = "health" /\ "submissions_count" \in DOMAIN last') =>
             /\ last'.submissions_count = Len(acked')
             /\ last'.submissions_count = Len(Store')
             /\ last'.submissions_count >= Len(Store)
    ]_vars

\* a health report counting two records, after listings and submits
C13_Witness ==
    /\ mode = "demo"
    /\ last.op = "health" /\ last.submissions_count >= 2
    /\ Len(acked) >= 2

(***************************************************************************)
(* C14: of any two stored records, the one inserted into the store first   *)
(* has the createdAt that is less or equal; createdAt is assigned at the   *)
(* moment of insertion, not earlier in the handler.                        *)
(* Stated as the claim states it; the MongoDB server violates it.          *)
(***************************************************************************)
C14_CreatedAtFollowsInsertion ==
    [][Len(Store') > Len(Store) =>
          /\ Store'[Len(Store')].createdAt = now'
          /\ \A i, j \in 1..Len(Store') :
                i < j => Store'[i].createdAt <= Store'[j].createdAt
    ]_vars

====
